---- MODULE Spec2Model ----
(***************************************************************************)
(* swagger-routes, src/swaggerSpec.js: the $ref resolver (resolveRefs,     *)
(* resolveRef), the operation assembler (createPathOperation and the       *)
(* schema builders) and the operation extractor (getAllOperations), run on *)
(* a heap of JavaScript objects with identity.                             *)
(*                                                                         *)
(* A JavaScript string is the sequence of its tokens (<<"#", "/",          *)
(* "definitions", "/", "D">> is '#/definitions/D'); the separators "/" and *)
(* "#" and the prefix "x-" are always tokens of their own, so two strings  *)
(* are equal exactly when their token sequences are.  A property key is a  *)
(* string.  A value is a primitive or a pointer into the heap; a heap node *)
(* is an object (ordered keys, as for-in and Object.keys see them) or an   *)
(* array.                                                                  *)
(***************************************************************************)
EXTENDS Integers, Sequences, FiniteSets, TLC

\* How many exported calls one behaviour makes.
MaxSteps == 2
\* The engine's call-stack limit, in nested resolveRefs frames.
MaxStack == 10
\* How deep a returned structure is compared.
MaxDepth == 6

HTTP_METHODS == <<"get", "put", "post", "delete", "options", "head", "patch">>

PARAM_GROUPS == <<"header", "path", "query", "body", "formData">>

(***************************************************************************)
(* Values                                                                  *)
(***************************************************************************)
Str(tokens) == [t |-> "str", s |-> tokens, p |-> 0]
S(token) == Str(<<token>>)
Num(n) == [t |-> "num", s |-> <<>>, p |-> n]
Bool(b) == [t |-> "bool", s |-> <<>>, p |-> IF b THEN 1 ELSE 0]
Null == [t |-> "null", s |-> <<>>, p |-> 0]
Undefined == [t |-> "undef", s |-> <<>>, p |-> 0]
Ptr(id) == [t |-> "ptr", s |-> <<>>, p |-> id]

IsPtr(v) == v.t = "ptr"

\* JavaScript truthiness: what `!data`, `if (data.$ref)` and assert.ok test.
Truthy(v) ==
    CASE v.t = "ptr" -> TRUE
      [] v.t = "str" -> v.s # <<>>
      [] v.t = "num" -> v.p # 0
      [] v.t = "bool" -> v.p = 1
      [] OTHER -> FALSE

\* null and undefined: the values a property read throws on.
Nullish(v) == v.t \in {"null", "undef"}

(***************************************************************************)
(* Heap nodes                                                              *)
(***************************************************************************)
ObjNode(keys, vals) == [kind |-> "obj", keys |-> keys, vals |-> vals]
ArrNode(vals) == [kind |-> "arr", keys |-> <<>>, vals |-> vals]
EmptyObj == ObjNode(<<>>, <<>>)

Digits == <<"0", "1", "2", "3", "4", "5", "6", "7", "8", "9">>

\* The enumerable own keys of a node, in enumeration order; an array's are
\* its indices.
KeysOf(node) ==
    IF node.kind = "arr"
    THEN [i \in 1..Len(node.vals) |-> <<Digits[i]>>]
    ELSE node.keys

IndexOf(keys, k) ==
    IF \E i \in 1..Len(keys) : keys[i] = k
    THEN CHOOSE i \in 1..Len(keys) : keys[i] = k
    ELSE 0

HasKey(node, k) == IndexOf(KeysOf(node), k) # 0

\* node[k]
Get(node, k) ==
    IF HasKey(node, k) THEN node.vals[IndexOf(KeysOf(node), k)] ELSE Undefined

\* node[k] = v on an object: an existing key keeps its place, a new one is
\* appended.
Put(node, k, v) ==
    IF HasKey(node, k)
    THEN [node EXCEPT !.vals[IndexOf(node.keys, k)] = v]
    ELSE [node EXCEPT !.keys = Append(@, k), !.vals = Append(@, v)]

\* delete node[k]
Del(node, k) ==
    LET keep == SelectSeq([i \in 1..Len(node.keys) |-> i],
                          LAMBDA i : node.keys[i] # k)
    IN [node EXCEPT !.keys = [j \in 1..Len(keep) |-> node.keys[keep[j]]],
                    !.vals = [j \in 1..Len(keep) |-> node.vals[keep[j]]]]

\* value[k] for a value that is not null or undefined.  A primitive has no
\* own keys (no document of the model reads 'length' or an index of a
\* string).
GetProp(heap, value, k) ==
    IF IsPtr(value) THEN Get(heap[value.p], k) ELSE Undefined

\* What Object.assign copies from one source: the own enumerable properties
\* of an object or array, nothing of a number, boolean, null, undefined or
\* the empty string.
SourceOf(heap, value) ==
    CASE IsPtr(value) ->
            ObjNode(KeysOf(heap[value.p]), heap[value.p].vals)
      [] value.t \in {"num", "bool", "null", "undef"} -> EmptyObj
      [] value.t = "str" /\ value.s = <<>> -> EmptyObj

RECURSIVE AssignFrom(_, _, _)
AssignFrom(target, source, i) ==
    IF i > Len(source.keys) THEN target
    ELSE AssignFrom(Put(target, source.keys[i], source.vals[i]), source, i + 1)

\* Object.assign(target, source) on node contents.
ObjectAssign(target, source) == AssignFrom(target, source, 1)

(***************************************************************************)
(* The interpreter's state: the heap, the two module-level caches, the     *)
(* number of resolveRefs calls made, and the exception in flight ("" for   *)
(* none).                                                                  *)
(***************************************************************************)
Alloc(st, node) == [st EXCEPT !.heap = Append(@, node)]
NextId(st) == Len(st.heap) + 1
Throw(st, e) == [st |-> [st EXCEPT !.err = e], val |-> Undefined]
Return(st, v) == [st |-> st, val |-> v]

\* The record of one call's steps, kept for the properties.  Every event has
\* the same fields; the ones a kind of event does not use are empty.
NoEvent ==
    [ev |-> "", ref |-> Undefined, err |-> "", val |-> Undefined,
     own |-> EmptyObj, new |-> 0, target |-> EmptyObj, merged |-> EmptyObj,
     absent |-> FALSE, found |-> Undefined]

\* A resolveRef call: the reference, the error or the value returned, the
\* node that carried the reference, whether a lookup along the path gave
\* null or undefined, and what the lookups along the path end in.
RefEvent(ref, err, val, node, absent, found) ==
    [NoEvent EXCEPT !.ev = "ref", !.ref = ref, !.err = err, !.val = val,
                    !.own = node, !.absent = absent, !.found = found]

\* A merge: the target and its fields then, the node's own fields without
\* $ref, and the new object and its fields then.
MergeEvent(ref, val, target, own, new, merged) ==
    [NoEvent EXCEPT !.ev = "merge", !.ref = ref, !.val = val,
                    !.target = target, !.own = own, !.new = new,
                    !.merged = merged]

\* The value resolveRefs returned to createPathOperation.
RootEvent(val) == [NoEvent EXCEPT !.ev = "root", !.val = val]

Log(st, event) == [st EXCEPT !.log = Append(@, event)]

(***************************************************************************)
(* resolveRef                                                              *)
(***************************************************************************)
RECURSIVE SplitFrom(_, _, _)
SplitFrom(tokens, cur, acc) ==
    IF tokens = <<>> THEN Append(acc, cur)
    ELSE IF Head(tokens) = "/"
         THEN SplitFrom(Tail(tokens), <<>>, Append(acc, cur))
         ELSE SplitFrom(Tail(tokens), Append(cur, Head(tokens)), acc)

\* ref.split('/'): the segments between the "/" tokens; never empty.
Split(tokens) == SplitFrom(tokens, <<>>, <<>>)

\* The while loop of resolveRef: one key lookup per segment, and assert.ok
\* on every value looked up.
RECURSIVE Walk(_, _, _)
Walk(heap, value, parts) ==
    IF parts = <<>> THEN [err |-> "", val |-> value]
    ELSE LET next == GetProp(heap, value, Head(parts))
         IN IF ~Truthy(next)
            THEN [err |-> "InvalidReference", val |-> Undefined]
            ELSE Walk(heap, next, Tail(parts))

\* resolveRef from `const parts` on: the format assertion, the walk, and the
\* write to refCache.  A $ref that is not a string has no split method.
LookupRef(st, ref, spec) ==
    IF ref.t # "str" THEN Throw(st, "TypeError")
    ELSE LET parts == Split(ref.s)
         IN IF Head(parts) # <<"#">>
            THEN Throw(st, "InvalidReferenceFormat")
            ELSE LET w == Walk(st.heap, Ptr(spec), Tail(parts))
                 IN IF w.err # "" THEN Throw(st, w.err)
                    ELSE Return([st EXCEPT !.refCache = (ref.s :> w.val) @@ @],
                                w.val)

\* resolveRef with the read of refCache that the source has commented out.
ResolveRefReadingCache(st, ref, spec) ==
    IF ref.t = "str" /\ ref.s \in DOMAIN st.refCache
    THEN Return(st, st.refCache[ref.s])
    ELSE LookupRef(st, ref, spec)

ResolveRef(st, ref, spec) == LookupRef(st, ref, spec)

(***************************************************************************)
(* resolveRefs                                                             *)
(***************************************************************************)
K_ref == <<"$ref">>

\* Object.assign with the arguments swapped: the target's fields win.
MergeTargetWins(resolved, own) ==
    ObjectAssign(ObjectAssign(EmptyObj, own), resolved)

\* Object.assign({}, resolved, data)
Merge(resolved, own) == ObjectAssign(ObjectAssign(EmptyObj, resolved), own)

\* !data || dataCache.has(data)
Skips(st, data) == ~Truthy(data) \/ (IsPtr(data) /\ data.p \in st.cache)

RECURSIVE ResolveRefs(_, _, _, _)
RECURSIVE ForIn(_, _, _, _, _, _)
RECURSIVE MapItems(_, _, _, _, _, _)

\* data[name] = <the value resolveRefs returned>, and the next name.
Assigned(r, id, keys, i, spec, depth) ==
    IF r.st.err # "" THEN r
    ELSE ForIn([r.st EXCEPT !.heap[id] = Put(@, keys[i], r.val)],
               id, keys, i + 1, spec, depth)

\* for (let name in data) data[name] = resolveRefs(data[name], spec)
ForIn(st, id, keys, i, spec, depth) ==
    IF i > Len(keys) THEN Return(st, Ptr(id))
    ELSE Assigned(ResolveRefs(st, Get(st.heap[id], keys[i]), spec, depth + 1),
                  id, keys, i, spec, depth)

\* The item resolveRefs returned joins the new array, and the next item.
Mapped(r, id, i, acc, spec, depth) ==
    IF r.st.err # "" THEN r
    ELSE MapItems(r.st, id, i + 1, Append(acc, r.val), spec, depth)

\* data.map(item => resolveRefs(item, spec)): a new array of the resolved
\* items, in order.
MapItems(st, id, i, acc, spec, depth) ==
    IF i > Len(st.heap[id].vals)
    THEN Return(Alloc(st, ArrNode(acc)), Ptr(NextId(st)))
    ELSE Mapped(ResolveRefs(st, st.heap[id].vals[i], spec, depth + 1),
                id, i, acc, spec, depth)

\* Whether a key lookup along the path gives null or undefined.
RECURSIVE AbsentFrom(_, _, _)
AbsentFrom(heap, value, parts) ==
    IF parts = <<>> THEN FALSE
    ELSE Nullish(GetProp(heap, value, Head(parts)))
         \/ AbsentFrom(heap, GetProp(heap, value, Head(parts)), Tail(parts))

AbsentOnPath(heap, spec, ref) ==
    ref.t = "str" /\ AbsentFrom(heap, Ptr(spec), Tail(Split(ref.s)))

\* The value the key lookups along the path end in, with no test on the way.
RECURSIVE ValueFrom(_, _, _)
ValueFrom(heap, value, parts) ==
    IF parts = <<>> THEN value
    ELSE ValueFrom(heap, GetProp(heap, value, Head(parts)), Tail(parts))

ValueOnPath(heap, spec, ref) ==
    IF ref.t = "str" THEN ValueFrom(heap, Ptr(spec), Tail(Split(ref.s)))
    ELSE Undefined

\* The lines after resolveRef returned: delete data.$ref, the merge into a
\* new object, dataCache.add of the new object, and the loop over its keys.
Resolved(rr, id, spec, depth) ==
    LET node == rr.st.heap[id]
        s2 == Log(rr.st, RefEvent(Get(node, K_ref), rr.st.err, rr.val, node,
                     AbsentOnPath(rr.st.heap, spec, Get(node, K_ref)),
                     ValueOnPath(rr.st.heap, spec, Get(node, K_ref))))
        own == Del(node, K_ref)
        h2 == [rr.st.heap EXCEPT ![id] = own]
        merged == Merge(SourceOf(h2, rr.val), own)
        new == Len(h2) + 1
    IN IF rr.st.err # "" THEN Return(s2, Undefined)
       ELSE ForIn(Log([s2 EXCEPT !.heap = Append(h2, merged),
                                 !.cache = @ \cup {new}],
                      MergeEvent(Get(node, K_ref), rr.val,
                                 SourceOf(h2, rr.val), own, new, merged)),
                  new, merged.keys, 1, spec, depth)

ResolveRefs(st, data, spec, depth) ==
    IF depth > MaxStack THEN Throw(st, "RangeError")
    ELSE IF Skips(st, data) \/ ~IsPtr(data)
    THEN Return([st EXCEPT !.calls = @ + 1], data)
    ELSE IF st.heap[data.p].kind = "arr"
    THEN MapItems([st EXCEPT !.calls = @ + 1], data.p, 1, <<>>, spec, depth)
    ELSE IF Truthy(Get(st.heap[data.p], K_ref))
    THEN Resolved(ResolveRef([st EXCEPT !.calls = @ + 1],
                             Get(st.heap[data.p], K_ref), spec),
                  data.p, spec, depth)
    ELSE ForIn([st EXCEPT !.calls = @ + 1, !.cache = @ \cup {data.p}],
               data.p, st.heap[data.p].keys, 1, spec, depth)

(***************************************************************************)
(* The schema builders                                                     *)
(***************************************************************************)
K(token) == <<token>>

\* A value used as a property key (props[param.name]).
ToKey(v) ==
    CASE v.t = "str" -> v.s
      [] v.t = "undef" -> <<"undefined">>
      [] v.t = "null" -> <<"null">>

\* A value inside a template literal.
ToStr(v) == ToKey(v)

\* getOperationProperty: (pathInfo && pathInfo[prop]) ? pathInfo[prop] : spec[prop]
GetOperationProperty(heap, prop, pathInfo, spec) ==
    IF Truthy(pathInfo) /\ Truthy(GetProp(heap, pathInfo, K(prop)))
    THEN GetProp(heap, pathInfo, K(prop))
    ELSE GetProp(heap, Ptr(spec), K(prop))

\* The reduce of createParamsSchema: props[param.name] = Object.assign({}, param)
RECURSIVE CopyParams(_, _, _, _)
CopyParams(st, params, i, props) ==
    IF i > Len(params) THEN [st |-> st, val |-> props]
    ELSE CopyParams(Alloc(st, ObjectAssign(EmptyObj, SourceOf(st.heap, params[i]))),
                    params, i + 1,
                    Put(props, ToKey(GetProp(st.heap, params[i], K("name"))),
                        Ptr(NextId(st))))

\* params.filter(param => param.required).map(param => param.name)
RequiredNames(heap, params) ==
    LET req == SelectSeq(params,
                         LAMBDA q : Truthy(GetProp(heap, q, K("required"))))
    IN [i \in 1..Len(req) |-> GetProp(heap, req[i], K("name"))]

\* createParamsSchema: the schema object, its properties object, the copy of
\* each parameter and the required array are new objects.
CreateParamsSchema(st, params) ==
    LET c == CopyParams(st, params, 1, EmptyObj)
        s1 == Alloc(c.st, c.val)
        s2 == Alloc(s1, ArrNode(RequiredNames(st.heap, params)))
        schema == ObjNode(<<K("type"), K("properties"), K("required")>>,
                          <<S("object"), Ptr(NextId(c.st)), Ptr(NextId(s1))>>)
    IN Return(Alloc(s2, schema), Ptr(NextId(s2)))

\* The filter of createParamGroupSchemas with its test dropped.
KeepsEveryGroup(heap, schema) == TRUE

\* .filter(param => Object.keys(param.schema.properties).length)
KeepsGroup(heap, schema) ==
    Len(KeysOf(heap[GetProp(heap, schema, K("properties")).p])) # 0

RECURSIVE GroupSchemas(_, _, _, _)

\* The schema of one location joins the map when the filter keeps it.
Grouped(r, params, g, map) ==
    GroupSchemas(r.st, params, g + 1,
                 IF KeepsGroup(r.st.heap, r.val)
                 THEN Put(map, K(PARAM_GROUPS[g]), r.val)
                 ELSE map)

\* The map of createParamGroupSchemas over PARAM_GROUPS, then its filter and
\* reduce: `map` collects the kept locations.
GroupSchemas(st, params, g, map) ==
    IF g > Len(PARAM_GROUPS) THEN Return(Alloc(st, map), Ptr(NextId(st)))
    ELSE Grouped(CreateParamsSchema(st,
                    SelectSeq(params, LAMBDA q :
                        GetProp(st.heap, q, K("in")) = S(PARAM_GROUPS[g]))),
                 params, g, map)

\* createParamGroupSchemas.  parameters.filter needs an array, and param.in
\* throws on a null or undefined item.
CreateParamGroupSchemas(st, parameters) ==
    IF ~IsPtr(parameters) \/ st.heap[parameters.p].kind # "arr"
    THEN Throw(st, "TypeError")
    ELSE LET params == st.heap[parameters.p].vals
         IN IF \E i \in 1..Len(params) : Nullish(params[i])
            THEN Throw(st, "TypeError")
            ELSE GroupSchemas(st, params, 1, EmptyObj)

\* createResponseHeadersSchema
CreateResponseHeadersSchema(st, headers) ==
    IF ~Truthy(headers) THEN Return(st, Undefined)
    ELSE LET names == KeysOf(SourceOf(st.heap, headers))
         IN IF \E i \in 1..Len(names) :
                   Nullish(GetProp(st.heap, headers, names[i]))
            THEN Throw(st, "TypeError")
            ELSE LET req == SelectSeq(names, LAMBDA n :
                               Truthy(GetProp(st.heap,
                                   GetProp(st.heap, headers, n), K("required"))))
                     s1 == Alloc(st, ArrNode([i \in 1..Len(req) |-> Str(req[i])]))
                     schema == ObjNode(
                        <<K("type"), K("properties"), K("required")>>,
                        <<S("object"), headers, Ptr(NextId(st))>>)
                 IN Return(Alloc(s1, schema), Ptr(NextId(s1)))

RECURSIVE ResponseSchemas(_, _, _, _, _)

\* The entry of one response joins the map.
Responded(h, responses, ids, i, map) ==
    IF h.st.err # "" THEN h
    ELSE ResponseSchemas(
            Alloc(h.st, ObjNode(
                <<K("id"), K("bodySchema"), K("headersSchema")>>,
                <<Str(ids[i]),
                  GetProp(h.st.heap, GetProp(h.st.heap, responses, ids[i]),
                          K("schema")),
                  h.val>>)),
            responses, ids, i + 1, Put(map, ids[i], Ptr(NextId(h.st))))

\* createResponseSchemas: one {id, bodySchema, headersSchema} per response
\* key.
ResponseSchemas(st, responses, ids, i, map) ==
    IF i > Len(ids) THEN Return(Alloc(st, map), Ptr(NextId(st)))
    ELSE IF Nullish(GetProp(st.heap, responses, ids[i]))
    THEN Throw(st, "TypeError")
    ELSE Responded(CreateResponseHeadersSchema(st,
                      GetProp(st.heap, GetProp(st.heap, responses, ids[i]),
                              K("headers"))),
                   responses, ids, i, map)

CreateResponseSchemas(st, responses) ==
    ResponseSchemas(st, responses, KeysOf(SourceOf(st.heap, responses)), 1,
                    EmptyObj)

(***************************************************************************)
(* createPathOperation                                                     *)
(***************************************************************************)
\* path.normalize on a path with no '.' or '..' segment: runs of "/" become
\* one "/".
RECURSIVE Normalize(_)
Normalize(tokens) ==
    IF Len(tokens) < 2 THEN tokens
    ELSE IF tokens[1] = "/" /\ tokens[2] = "/" THEN Normalize(Tail(tokens))
    ELSE <<Head(tokens)>> \o Normalize(Tail(tokens))

\* `/${spec.basePath}/${pathInfo.path}`, normalized.
FullPath(heap, pathInfo, spec) ==
    Str(Normalize(<<"/">> \o ToStr(GetProp(heap, Ptr(spec), K("basePath")))
                  \o <<"/">> \o ToStr(GetProp(heap, Ptr(pathInfo), K("path")))))

\* if (!operationInfo[key]) operationInfo[key] = <a new empty array or object>
DefaultField(st, id, key, empty) ==
    IF Truthy(Get(st.heap[id], key)) THEN st
    ELSE [Alloc(st, empty) EXCEPT !.heap[id] = Put(@, key, Ptr(NextId(st)))]

\* Object.assign(computed, pathsXProps, operationInfo)
Assemble(computed, xProps, operationInfo) ==
    ObjectAssign(ObjectAssign(computed, xProps), operationInfo)

\* The end of createPathOperation: the descriptor is a new object holding
\* the computed fields, then the extensions, then the operation's own
\* fields, without operationId.
Described(rs, groups, op, method, pathInfo, pathsXProps, spec) ==
    LET h == rs.st.heap
        computed == ObjNode(
           <<K("id"), K("path"), K("fullPath"), K("consumes"), K("produces"),
             K("paramGroupSchemas"), K("responseSchemas"), K("method")>>,
           <<Get(h[op], K("operationId")),
             Get(h[pathInfo], K("path")),
             FullPath(h, pathInfo, spec),
             GetOperationProperty(h, "consumes", Ptr(op), spec),
             GetOperationProperty(h, "produces", Ptr(op), spec),
             groups, rs.val, Str(method)>>)
    IN IF rs.st.err # "" THEN rs
       ELSE Return(Alloc(rs.st,
                         Del(Assemble(computed, SourceOf(h, Ptr(pathsXProps)),
                                      SourceOf(h, Ptr(op))),
                             K("operationId"))),
                   Ptr(NextId(rs.st)))

\* createResponseSchemas(operationInfo.responses, spec), once the parameter
\* groups are built.
WithGroups(pg, op, method, pathInfo, pathsXProps, spec) ==
    IF pg.st.err # "" THEN pg
    ELSE Described(CreateResponseSchemas(pg.st,
                       Get(pg.st.heap[op], K("responses"))),
                   pg.val, op, method, pathInfo, pathsXProps, spec)

\* createParamGroupSchemas(operationInfo.parameters, spec), once the two
\* defaults are filled in.
WithDefaults(st, op, method, pathInfo, pathsXProps, spec) ==
    WithGroups(CreateParamGroupSchemas(st, Get(st.heap[op], K("parameters"))),
               op, method, pathInfo, pathsXProps, spec)

\* createPathOperation after resolveRefs returned operationInfo.  A property
\* of null or undefined cannot be read, and a property of another primitive
\* cannot be set in strict mode.
WithOperationInfo(r, method, pathInfo, pathsXProps, spec) ==
    IF r.st.err # "" THEN r
    ELSE IF ~IsPtr(r.val) THEN Throw(r.st, "TypeError")
    ELSE WithDefaults(
            DefaultField(
               DefaultField(Log(r.st, RootEvent(r.val)),
                            r.val.p, K("parameters"), ArrNode(<<>>)),
               r.val.p, K("responses"), EmptyObj),
            r.val.p, method, pathInfo, pathsXProps, spec)

CreatePathOperation(st, method, pathInfo, pathsXProps, spec) ==
    WithOperationInfo(ResolveRefs(st, Get(st.heap[pathInfo], method), spec, 1),
                      method, pathInfo, pathsXProps, spec)

(***************************************************************************)
(* getAllOperations                                                        *)
(***************************************************************************)
\* Object.keys(spec.paths || {})
PathKeys(heap, spec) ==
    LET paths == GetProp(heap, Ptr(spec), K("paths"))
    IN IF Truthy(paths) THEN KeysOf(SourceOf(heap, paths)) ELSE <<>>

\* Object.assign({ path }, spec.paths[path])
PathInfo(heap, spec, path) ==
    ObjectAssign(ObjNode(<<K("path")>>, <<Str(path)>>),
                 SourceOf(heap, GetProp(heap, GetProp(heap, Ptr(spec), K("paths")),
                                        path)))

\* prop.startsWith('x-')
StartsWithXDash(key) == Len(key) > 0 /\ Head(key) = "x-"

\* getXProps
GetXProps(node) ==
    LET keep == SelectSeq([i \in 1..Len(node.keys) |-> i],
                          LAMBDA i : StartsWithXDash(node.keys[i]))
    IN ObjNode([j \in 1..Len(keep) |-> node.keys[keep[j]]],
               [j \in 1..Len(keep) |-> node.vals[keep[j]]])

\* A method test that also takes the upper-case GET.
IsHttpMethodAnyCase(key) ==
    key = <<"GET">> \/ \E i \in 1..Len(HTTP_METHODS) : key = <<HTTP_METHODS[i]>>

\* HTTP_METHODS.indexOf(key) !== -1
IsHttpMethod(key) == \E i \in 1..Len(HTTP_METHODS) : key = <<HTTP_METHODS[i]>>

\* Object.keys(pathInfo).filter(key => HTTP_METHODS.indexOf(key) !== -1)
MethodKeys(node) == SelectSeq(node.keys, IsHttpMethod)

RECURSIVE PathOperations(_, _, _, _, _, _, _)

\* The descriptor createPathOperation returned joins the list.
Operated(r, pathInfo, xProps, methods, i, ops, spec) ==
    IF r.st.err # "" THEN r
    ELSE PathOperations(r.st, pathInfo, xProps, methods, i + 1,
                        Append(ops, r.val), spec)

\* getPathOperations: the map over the method keys of one path item.
PathOperations(st, pathInfo, xProps, methods, i, ops, spec) ==
    IF i > Len(methods) THEN Return(st, ops)
    ELSE Operated(CreatePathOperation(st, methods[i], pathInfo, xProps, spec),
                  pathInfo, xProps, methods, i, ops, spec)

RECURSIVE AllOperations(_, _, _, _, _)

\* ops.concat(<the operations of one path>)
Concatenated(r, pathInfos, i, ops, spec) ==
    IF r.st.err # "" THEN r
    ELSE AllOperations(r.st, pathInfos, i + 1, ops \o r.val, spec)

\* The reduce of getAllOperations: pathInfos holds the ids getPaths made;
\* getXProps makes a new object for each.
AllOperations(st, pathInfos, i, ops, spec) ==
    IF i > Len(pathInfos) THEN Return(Alloc(st, ArrNode(ops)), Ptr(NextId(st)))
    ELSE Concatenated(
            PathOperations(Alloc(st, GetXProps(st.heap[pathInfos[i]])),
                           pathInfos[i], NextId(st),
                           MethodKeys(st.heap[pathInfos[i]]), 1, <<>>, spec),
            pathInfos, i, ops, spec)

\* getPaths: one new pathInfo object per key of spec.paths.
RECURSIVE GetPaths(_, _, _, _)
GetPaths(st, spec, keys, i) ==
    IF i > Len(keys) THEN st
    ELSE GetPaths(Alloc(st, PathInfo(st.heap, spec, keys[i])), spec, keys, i + 1)

GetAllOperations(st, spec) ==
    AllOperations(GetPaths(st, spec, PathKeys(st.heap, spec), 1),
                  [i \in 1..Len(PathKeys(st.heap, spec)) |-> Len(st.heap) + i],
                  1, <<>>, spec)

(***************************************************************************)
(* applyDefaults                                                           *)
(***************************************************************************)
\* if (!spec.basePath) spec.basePath = '/'
ApplyDefaults(heap, spec) ==
    IF Truthy(Get(heap[spec], K("basePath"))) THEN heap
    ELSE [heap EXCEPT ![spec] = Put(@, K("basePath"), S("/"))]

(***************************************************************************)
(* Documents.  A document is written as a tree (what parseSpec returns for *)
(* a JSON or YAML text) and loaded into the heap; a YAML anchor and alias  *)
(* give a node that contains itself.                                       *)
(***************************************************************************)
Obj(pairs) ==
    [kind |-> "obj", anchor |-> "",
     keys |-> [i \in 1..Len(pairs) |-> pairs[i][1]],
     vals |-> [i \in 1..Len(pairs) |-> pairs[i][2]]]
Arr(items) == [kind |-> "arr", anchor |-> "", keys |-> <<>>, vals |-> items]
Anchor(name, tree) == [tree EXCEPT !.anchor = name]
Alias(name) == [kind |-> "alias", anchor |-> name, keys |-> <<>>, vals |-> <<>>]
IsTree(x) == "kind" \in DOMAIN x

RECURSIVE Load(_, _)
RECURSIVE LoadItems(_, _, _, _)

\* The values of a node's children, loaded in order (the test of the heap
\* has each child loaded before the next is begun).
LoadItems(ls, items, i, acc) ==
    IF i > Len(items) THEN [ls |-> ls, val |-> acc]
    ELSE LET r == Load(ls, items[i])
         IN IF Len(r.ls.heap) > 0
            THEN LoadItems(r.ls, items, i + 1, Append(acc, r.val))
            ELSE r

\* parseSpec: the node is registered under its anchor before its children
\* are read.
Load(ls, tree) ==
    IF ~IsTree(tree) THEN [ls |-> ls, val |-> tree]
    ELSE IF tree.kind = "alias"
    THEN [ls |-> ls, val |-> Ptr(ls.anchors[tree.anchor])]
    ELSE LET id == Len(ls.heap) + 1
             l1 == [heap |-> Append(ls.heap,
                                [kind |-> tree.kind, keys |-> tree.keys,
                                 vals |-> <<>>]),
                    anchors |-> IF tree.anchor = "" THEN ls.anchors
                                ELSE (tree.anchor :> id) @@ ls.anchors]
             r == LoadItems(l1, tree.vals, 1, <<>>)
         IN [ls |-> [r.ls EXCEPT !.heap[id].vals = r.val], val |-> Ptr(id)]

Ref(tokens) == Obj(<< <<K_ref, Str(tokens)>> >>)
RefD == <<"#", "/", "definitions", "/", "D">>
RefE == <<"#", "/", "definitions", "/", "E">>
RefP == <<"#", "/", "parameters", "/", "P">>

OpKinds == {"absent", "null", "empty", "own", "ref"}
DefKinds == {"plain", "chain", "self", "nested", "mutual", "objcycle",
             "arrcycle", "badformat", "missing", "falsy"}

\* The reference the shared parameter's schema carries.
SchemaRef(defs) ==
    CASE defs = "badformat" -> <<"definitions", "/", "D">>
      [] defs = "missing" -> <<"#", "/", "definitions", "/", "Missing">>
      [] defs = "falsy" -> <<"#", "/", "flags", "/", "off">>
      [] OTHER -> RefD

Definitions(defs) ==
    CASE defs = "chain" ->
            Obj(<< <<K("D"), Ref(RefE)>>,
                   <<K("E"), Obj(<< <<K("type"), S("string")>> >>)>> >>)
      [] defs = "self" ->
            Obj(<< <<K("D"), Obj(<< <<K_ref, Str(RefD)>>,
                                    <<K("title"), S("loop")>> >>)>> >>)
      [] defs = "nested" ->
            Obj(<< <<K("D"), Obj(<< <<K("type"), S("object")>>,
                                    <<K("next"), Ref(RefD)>> >>)>> >>)
      [] defs = "mutual" ->
            Obj(<< <<K("D"), Obj(<< <<K("type"), S("object")>>,
                                    <<K("e"), Ref(RefE)>> >>)>>,
                   <<K("E"), Obj(<< <<K("type"), S("object")>>,
                                    <<K("d"), Ref(RefD)>> >>)>> >>)
      [] defs = "objcycle" ->
            Obj(<< <<K("D"), Anchor("d",
                       Obj(<< <<K("type"), S("object")>>,
                              <<K("list"), Arr(<<Alias("d")>>)>> >>))>> >>)
      [] defs = "arrcycle" ->
            Obj(<< <<K("D"), Obj(<< <<K("type"), S("array")>>,
                                    <<K("items"),
                                      Anchor("a", Arr(<<Alias("a")>>))>> >>)>> >>)
      [] OTHER ->
            Obj(<< <<K("D"), Obj(<< <<K("type"), S("object")>>,
                                    <<K("title"), S("pet")>> >>)>> >>)

\* The consumes field of the get operation.
Consumes(op) ==
    CASE op = "null" -> << <<K("consumes"), Null>> >>
      [] op = "empty" -> << <<K("consumes"), Arr(<<>>)>> >>
      [] op = "own" -> << <<K("consumes"), Arr(<<S("xml")>>)>> >>
      [] OTHER -> <<>>

OpGet(op) ==
    IF op = "ref"
    THEN Obj(<< <<K_ref, Str(<<"#", "/", "x-", "ops", "/", "Shared">>)>>,
                <<K("summary"), S("mine")>> >>)
    ELSE Obj(<< <<K("operationId"), S("getPets")>> >> \o Consumes(op) \o
             << <<K("parameters"),
                  Arr(<< Obj(<< <<K_ref, Str(RefP)>>,
                                <<K("required"), Bool(FALSE)>>,
                                <<K("description"), S("mine")>> >>),
                         Obj(<< <<K("name"), S("q")>>,
                                <<K("in"), S("query")>> >>) >>)>>,
                <<K("responses"),
                  Obj(<< <<K("200"),
                     Obj(<< <<K("headers"),
                        Obj(<< <<K("X-Rate"),
                           Obj(<< <<K("required"), Bool(TRUE)>> >>)>> >>)>> >>)>> >>)>> >>)

OpPost ==
    Obj(<< <<K("operationId"), S("addPet")>>,
           <<<<"x-", "owner">>, S("ops")>>,
           <<K("parameters"),
             Arr(<< Ref(RefP),
                    Obj(<< <<K("name"), S("body")>>, <<K("in"), S("body")>>,
                           <<K("required"), Bool(TRUE)>> >>) >>)>> >>)

OpDelete ==
    Obj(<< <<K("operationId"), S("deletePet")>>,
           <<K("parameters"),
             Arr(<< Obj(<< <<K("name"), S("id")>>, <<K("in"), S("path")>>,
                           <<K("required"), Bool(TRUE)>> >>),
                    Obj(<< <<K("name"), S("id")>>, <<K("in"), S("path")>> >>),
                    Obj(<< <<K("name"), S("session")>>,
                           <<K("in"), S("cookie")>>,
                           <<K("required"), Bool(TRUE)>> >>) >>)>> >>)

\* The first document: two paths, three operations, a shared parameter whose
\* schema is a reference, and a shared operation.
Doc1(c) ==
    Obj(<< <<K("basePath"), Str(<<"/", "api">>)>>,
           <<K("consumes"), Arr(<<S("json")>>)>>,
           <<K("produces"), Arr(<<S("json")>>)>>,
           <<K("paths"),
             Obj(<< <<<<"/", "pets">>,
                      Obj(<< <<<<"x-", "owner">>, S("team")>>,
                             <<K("parameters"), Arr(<<>>)>>,
                             <<K("GET"), Obj(<<>>)>>,
                             <<K("post"), OpPost>>,
                             <<<<"x-", "tier">>, S("gold")>>,
                             <<K("get"), OpGet(c.op)>> >>)>>,
                    <<<<"/", "pets", "/", "{id}">>,
                      Obj(<< <<K("delete"), OpDelete>> >>)>> >>)>>,
           <<K("parameters"),
             Obj(<< <<K("P"),
                      Obj(<< <<K("name"), S("id")>>, <<K("in"), S("path")>>,
                             <<K("required"), Bool(TRUE)>>,
                             <<K("schema"), Ref(SchemaRef(c.defs))>> >>)>> >>)>>,
           <<K("definitions"), Definitions(c.defs)>>,
           <<K("flags"), Obj(<< <<K("off"), Bool(FALSE)>> >>)>>,
           <<<<"x-", "ops">>,
             Obj(<< <<K("Shared"),
                      Obj(<< <<K("operationId"), S("shared")>>,
                             <<K("summary"), S("base")>>,
                             <<K("parameters"), Arr(<<Ref(RefP)>>)>> >>)>> >>)>> >>)

\* The second document: no basePath, and the reference strings of the first
\* with other targets.
Doc2 ==
    Obj(<< <<K("consumes"), Arr(<<S("xml")>>)>>,
           <<K("paths"),
             Obj(<< <<<<"/", "pets">>,
                      Obj(<< <<K("get"),
                         Obj(<< <<K("operationId"), S("listPets")>>,
                                <<K("parameters"), Arr(<<Ref(RefP)>>)>> >>)>> >>)>> >>)>>,
           <<K("parameters"),
             Obj(<< <<K("P"),
                      Obj(<< <<K("name"), S("limit")>>, <<K("in"), S("header")>>,
                             <<K("schema"), Ref(RefD)>> >>)>> >>)>>,
           <<K("definitions"),
             Obj(<< <<K("D"), Obj(<< <<K("type"), S("integer")>> >>)>> >>)>> >>)

NoAnchors == [a \in {} |-> 0]

\* Both documents loaded, the first one first.
Loaded(c) ==
    LET d1 == Load([heap |-> <<>>, anchors |-> NoAnchors], Doc1(c))
        d2 == Load([heap |-> d1.ls.heap, anchors |-> NoAnchors], Doc2)
    IN [heap |-> d2.ls.heap, specs |-> <<d1.val.p, d2.val.p>>,
        owner |-> [i \in 1..Len(d2.ls.heap) |->
                      IF i <= Len(d1.ls.heap) THEN 1 ELSE 2]]

(***************************************************************************)
(* The program: the two documents in one process, and the exported calls.  *)
(***************************************************************************)
VARIABLES
    cfg,         \* which documents were loaded
    specs,       \* the root object of each document
    heap,        \* every object and array of the process
    owner,       \* the document each heap node was loaded or made for
    dataCache,   \* const dataCache = new Set()
    refCache,    \* const refCache = new Map()
    pristine,    \* the heap as loaded and defaulted, never resolved
    heapBefore,  \* the heap before the last call
    steps,       \* the calls made
    last,        \* the last call, its outcome and its log
    prev,        \* the call before it
    assembled,   \* the operations createPathOperation was called for
    touched      \* the documents references were resolved in

vars == <<cfg, specs, heap, owner, dataCache, refCache, pristine, heapBefore,
          steps, last, prev, assembled, touched>>

Docs == {1, 2}
NoRefs == [r \in {} |-> Undefined]

\* What is kept of a call: its arguments, its outcome, its log, whether any
\* of its operations had been assembled before (again) and whether references
\* had been resolved in its document before (touchedBefore).
Call(fn, doc, path, method, r, again, touchedBefore) ==
    [fn |-> fn, doc |-> doc, path |-> path, method |-> method,
     err |-> r.st.err, val |-> IF r.st.err = "" THEN r.val ELSE Undefined,
     log |-> r.st.log, calls |-> r.st.calls, again |-> again,
     touchedBefore |-> touchedBefore]

NoCall ==
    [fn |-> "none", doc |-> 0, path |-> <<>>, method |-> <<>>, err |-> "",
     val |-> Undefined, log |-> <<>>, calls |-> 0, again |-> FALSE,
     touchedBefore |-> FALSE]

Start(h, cache, refs) ==
    [heap |-> h, cache |-> cache, refCache |-> refs, calls |-> 0, err |-> "",
     log |-> <<>>]

Init ==
    /\ cfg \in [op : OpKinds, defs : DefKinds]
    /\ specs = Loaded(cfg).specs
    /\ heap = Loaded(cfg).heap
    /\ owner = Loaded(cfg).owner
    /\ pristine = Loaded(cfg).heap
    /\ heapBefore = Loaded(cfg).heap
    /\ dataCache = {}
    /\ refCache = NoRefs
    /\ steps = 0
    /\ last = NoCall
    /\ prev = NoCall
    /\ assembled = {}
    /\ touched = {}

\* What a call leaves behind: the heap and the caches as the call left them,
\* also when it threw.
Commit(d, fn, path, method, r, again) ==
    /\ heap' = r.st.heap
    /\ owner' = owner \o [i \in 1..(Len(r.st.heap) - Len(heap)) |-> d]
    /\ dataCache' = r.st.cache
    /\ refCache' = r.st.refCache
    /\ heapBefore' = heap
    /\ steps' = steps + 1
    /\ last' = Call(fn, d, path, method, r, again, d \in touched)
    /\ prev' = last
    /\ UNCHANGED <<cfg, specs>>

SeqToSet(q) == {q[i] : i \in 1..Len(q)}

\* The (path, method) pairs getAllOperations assembles for a document, in
\* its order.
RECURSIVE PairsFrom(_, _, _, _)
PairsFrom(h, spec, keys, i) ==
    IF i > Len(keys) THEN <<>>
    ELSE LET ms == MethodKeys(PathInfo(h, spec, keys[i]))
         IN [j \in 1..Len(ms) |-> <<keys[i], ms[j]>>]
            \o PairsFrom(h, spec, keys, i + 1)
Pairs(h, spec) == PairsFrom(h, spec, PathKeys(h, spec), 1)

\* getSpecSync(spec) on a document already in memory.
GetSpecSync(d) ==
    /\ steps < MaxSteps
    /\ pristine' = ApplyDefaults(pristine, specs[d])
    /\ Commit(d, "getSpecSync", <<>>, <<>>,
              Return(Start(ApplyDefaults(heap, specs[d]), dataCache, refCache),
                     Ptr(specs[d])),
              FALSE)
    /\ UNCHANGED <<assembled, touched>>

\* createPathOperation(method, pathInfo, pathsXProps, spec) as the caller of
\* one operation calls it: with the pathInfo and the extensions getPaths and
\* getXProps give for the path.
RunCreate(h, cache, refs, spec, path, method) ==
    LET s0 == Start(h, cache, refs)
        s1 == Alloc(s0, PathInfo(h, spec, path))
        s2 == Alloc(s1, GetXProps(s1.heap[NextId(s0)]))
    IN CreatePathOperation(s2, method, NextId(s0), NextId(s1), spec)

CallCreatePathOperation(d, path, method) ==
    /\ steps < MaxSteps
    /\ Commit(d, "createPathOperation", path, method,
              RunCreate(heap, dataCache, refCache, specs[d], path, method),
              <<d, path, method>> \in assembled)
    /\ assembled' = assembled \cup {<<d, path, method>>}
    /\ touched' = touched \cup {d}
    /\ UNCHANGED pristine

\* getAllOperations(spec)
CallGetAllOperations(d) ==
    /\ steps < MaxSteps
    /\ Commit(d, "getAllOperations", <<>>, <<>>,
              GetAllOperations(Start(heap, dataCache, refCache), specs[d]),
              \E a \in assembled : a[1] = d)
    /\ assembled' = assembled \cup
          {<<d, pm[1], pm[2]>> : pm \in SeqToSet(Pairs(heap, specs[d]))}
    /\ touched' = touched \cup {d}
    /\ UNCHANGED pristine

Next ==
    \/ \E d \in Docs : GetSpecSync(d)
    \/ \E d \in Docs : CallGetAllOperations(d)
    \/ \E d \in Docs : \E pm \in SeqToSet(Pairs(heap, specs[d])) :
          CallCreatePathOperation(d, pm[1], pm[2])

Spec == Init /\ [][Next]_vars

(***************************************************************************)
(* What the properties read of a call.                                     *)
(***************************************************************************)
\* A value with the identity of its nodes left out: the fields and items of
\* everything reachable from it, down to k levels.
RECURSIVE Unfold(_, _, _)
Unfold(h, v, k) ==
    IF ~IsPtr(v)
    THEN [t |-> v.t, s |-> v.s, p |-> v.p, kind |-> "", keys |-> <<>>,
          vals |-> <<>>]
    ELSE IF k = 0
    THEN [t |-> "cut", s |-> <<>>, p |-> 0, kind |-> "", keys |-> <<>>,
          vals |-> <<>>]
    ELSE [t |-> "ptr", s |-> <<>>, p |-> 0, kind |-> h[v.p].kind,
          keys |-> h[v.p].keys,
          vals |-> [i \in 1..Len(h[v.p].vals) |->
                       Unfold(h, h[v.p].vals[i], k - 1)]]

\* The nodes reachable from a set of nodes.
RECURSIVE ReachFrom(_, _)
ReachFrom(h, seen) ==
    LET more == UNION {{h[n].vals[i].p :
                          i \in {j \in 1..Len(h[n].vals) : IsPtr(h[n].vals[j])}} :
                       n \in seen}
    IN IF more \subseteq seen THEN seen ELSE ReachFrom(h, seen \cup more)

Reach(h, v) == IF IsPtr(v) THEN ReachFrom(h, {v.p}) ELSE {}

\* A call that resolves references.
Resolving(call) == call.fn \in {"createPathOperation", "getAllOperations"}

\* The descriptors a call returned.
Descriptors(h, call) ==
    IF call.fn = "createPathOperation" THEN <<call.val>> ELSE h[call.val.p].vals

\* The operation nodes resolveRefs returned in a call, one per descriptor.
Roots(call) == SelectSeq(call.log, LAMBDA e : e.ev = "root")

\* The same call on the document as loaded, in a process that has resolved
\* nothing yet.
Fresh(call) ==
    IF call.fn = "createPathOperation"
    THEN RunCreate(pristine, {}, NoRefs, specs[call.doc], call.path, call.method)
    ELSE GetAllOperations(Start(pristine, {}, NoRefs), specs[call.doc])

SameAsFresh(call) ==
    /\ call.err = Fresh(call).st.err
    /\ call.err = "" =>
          Unfold(heap, call.val, MaxDepth)
             = Unfold(Fresh(call).st.heap, Fresh(call).val, MaxDepth)

(***************************************************************************)
(* The properties.                                                         *)
(***************************************************************************)
\* C1: when a call that resolves references returns, no node reachable from
\* a node resolveRefs returned still has a $ref field, chains of references
\* and references inside a target included.
C1_NoRefRemains ==
    (Resolving(last) /\ last.err = "") =>
        \A i \in 1..Len(Roots(last)) :
            \A n \in Reach(heap, Roots(last)[i].val) : ~HasKey(heap[n], K_ref)

\* A merge whose target is a keyed node without $ref.
PlainTarget(e) ==
    /\ e.ev = "merge"
    /\ IsPtr(e.val)
    /\ heap[e.val.p].kind = "obj"
    /\ ~HasKey(e.target, K_ref)

\* C2: a referencing node merged with a plain target gives a node with
\* exactly the keys of the target and the node's own keys other than $ref;
\* the node's own value wins on a key of both, the target's value is used on
\* a key of the target alone, and the result has no $ref.
C2_LocalOverrideWins ==
    \A i \in 1..Len(last.log) :
        PlainTarget(last.log[i]) =>
            LET e == last.log[i]
                ownKeys == SeqToSet(e.own.keys)
                targetKeys == SeqToSet(e.target.keys)
            IN /\ SeqToSet(e.merged.keys) = targetKeys \cup ownKeys
               /\ \A k \in ownKeys : Get(e.merged, k) = Get(e.own, k)
               /\ \A k \in targetKeys \ ownKeys :
                     Get(e.merged, k) = Get(e.target, k)
               /\ \A k \in ownKeys :
                     ~IsPtr(Get(e.own, k)) => Get(heap[e.new], k) = Get(e.own, k)
               /\ ~HasKey(e.merged, K_ref)
               /\ ~HasKey(heap[e.new], K_ref)

\* A merge in which the node overrides a field of a plain target and takes
\* another from it.
C2_Witness ==
    /\ last.err = ""
    /\ \E i \in 1..Len(last.log) :
          /\ PlainTarget(last.log[i])
          /\ \E k \in SeqToSet(last.log[i].own.keys) :
                /\ HasKey(last.log[i].target, k)
                /\ Get(last.log[i].target, k) # Get(last.log[i].own, k)
          /\ \E k \in SeqToSet(last.log[i].target.keys) :
                ~HasKey(last.log[i].own, k)

\* C3: the same resolving call made twice in a row returns the second time
\* a structure identical to the first and changes nothing of the document.
C3_Idempotent ==
    ( /\ Resolving(last)
      /\ prev.fn = last.fn /\ prev.doc = last.doc
      /\ prev.path = last.path /\ prev.method = last.method
      /\ prev.err = "" ) =>
        /\ last.err = ""
        /\ Unfold(heap, last.val, MaxDepth)
              = Unfold(heapBefore, prev.val, MaxDepth)
        /\ \A n \in Reach(heapBefore, Ptr(specs[last.doc])) :
              heap[n] = heapBefore[n]

\* C4: resolveRefs terminates on every document: no call ends by running
\* out of stack.
C4_Terminates == last.err # "RangeError"

\* C5: every resolveRef call ends in one of three ways: the format error
\* exactly when the first segment is not '#'; otherwise the reference error
\* exactly when a lookup along the path gives null or undefined; otherwise
\* the value at the path, the same node.  An error ends the whole call with
\* nothing returned.
C5_ThreeOutcomes ==
    \A i \in 1..Len(last.log) :
        (last.log[i].ev = "ref" /\ last.log[i].ref.t = "str") =>
            LET e == last.log[i]
                badFormat == Head(Split(e.ref.s)) # <<"#">>
            IN /\ e.err = "InvalidReferenceFormat" <=> badFormat
               /\ e.err = "InvalidReference" <=> (~badFormat /\ e.absent)
               /\ e.err = "" <=> (~badFormat /\ ~e.absent)
               /\ e.err = "" => e.val = e.found
               /\ e.err # "" => (last.err = e.err /\ last.val = Undefined)

\* The parameters of a descriptor, and those of one location.
ParamsOf(d) == heap[Get(heap[d.p], K("parameters")).p].vals
InGroup(d, g) ==
    SelectSeq(ParamsOf(d), LAMBDA q : GetProp(heap, q, K("in")) = S(g))
GroupsOf(d) == heap[Get(heap[d.p], K("paramGroupSchemas")).p]

\* C6: in every descriptor, paramGroupSchemas has a key for exactly the
\* locations of PARAM_GROUPS the operation has a parameter in; the schema of
\* a location has one property per parameter name of the location, and its
\* required array holds the names of the location's required parameters, all
\* of them keys of its properties.
C6_GroupsMatchParameters ==
    (Resolving(last) /\ last.err = "") =>
        \A i \in 1..Len(Descriptors(heap, last)) :
            LET d == Descriptors(heap, last)[i]
            IN /\ SeqToSet(GroupsOf(d).keys)
                     = {K(g) : g \in {x \in SeqToSet(PARAM_GROUPS) :
                                         InGroup(d, x) # <<>>}}
               /\ \A g \in SeqToSet(PARAM_GROUPS) :
                     InGroup(d, g) # <<>> =>
                        LET schema == heap[Get(GroupsOf(d), K(g)).p]
                            props == heap[Get(schema, K("properties")).p]
                            req == heap[Get(schema, K("required")).p].vals
                            in == InGroup(d, g)
                        IN /\ SeqToSet(props.keys)
                                 = {GetProp(heap, q, K("name")).s :
                                       q \in SeqToSet(in)}
                           /\ SeqToSet(req)
                                 = {GetProp(heap, q, K("name")) :
                                       q \in {x \in SeqToSet(in) :
                                          Truthy(GetProp(heap, x, K("required")))}}
                           /\ \A r \in SeqToSet(req) :
                                 r.t = "str" /\ r.s \in SeqToSet(props.keys)

\* A descriptor of an operation with two parameters of one name in one
\* location, one of them required, and a parameter in a location outside
\* PARAM_GROUPS.
C6_Witness ==
    /\ last.fn = "createPathOperation" /\ last.err = ""
    /\ \E q \in SeqToSet(ParamsOf(last.val)) :
          GetProp(heap, q, K("in")) = S("cookie")
    /\ Len(InGroup(last.val, "path")) = 2
    /\ GroupsOf(last.val).keys = <<K("path")>>
    /\ heap[Get(heap[Get(GroupsOf(last.val), K("path")).p],
                K("required")).p].vals = <<S("id")>>

\* C7: consumes and produces of a descriptor are the operation's own value
\* when it is present and not empty, and the document's value otherwise.
C7_Inherits ==
    (Resolving(last) /\ last.err = "") =>
        \A i \in 1..Len(Descriptors(heap, last)) :
            \A prop \in {"consumes", "produces"} :
                LET own == Get(heap[Roots(last)[i].val.p], K(prop))
                IN Get(heap[Descriptors(heap, last)[i].p], K(prop))
                      = IF IsPtr(own) /\ heap[own.p].vals # <<>>
                        THEN own
                        ELSE Get(heap[specs[last.doc]], K(prop))

\* The lower-case method names, and the (path, key) pairs of a document
\* whose key is one of them, in path order and, within a path, in the key
\* order of the path item.
LowerCaseMethods ==
    {<<"get">>, <<"put">>, <<"post">>, <<"delete">>, <<"options">>,
     <<"head">>, <<"patch">>}

PathItem(h, spec, path) == h[Get(h[Get(h[spec], K("paths")).p], path).p]

RECURSIVE MethodPairsFrom(_, _, _, _)
MethodPairsFrom(h, spec, paths, i) ==
    IF i > Len(paths) THEN <<>>
    ELSE LET keys == SelectSeq(PathItem(h, spec, paths[i]).keys,
                               LAMBDA k : k \in LowerCaseMethods)
         IN [j \in 1..Len(keys) |-> <<paths[i], keys[j]>>]
            \o MethodPairsFrom(h, spec, paths, i + 1)

MethodPairs(h, spec) ==
    MethodPairsFrom(h, spec, h[Get(h[spec], K("paths")).p].keys, 1)

\* C8: getAllOperations returns one descriptor for each (path, key) pair
\* whose key is a lower-case method name and none for another key, in path
\* order and within a path in key order; the descriptor's path and method
\* are the pair's, and it has every x- field of the path item, with the path
\* item's value unless the operation node has the key.
C8_OneDescriptorPerMethodKey ==
    (last.fn = "getAllOperations" /\ last.err = "") =>
        LET ds == heap[last.val.p].vals
            pairs == MethodPairs(heapBefore, specs[last.doc])
        IN /\ Len(ds) = Len(pairs)
           /\ \A i \in 1..Len(pairs) :
                 LET d == heap[ds[i].p]
                     item == PathItem(heapBefore, specs[last.doc], pairs[i][1])
                     op == heap[Roots(last)[i].val.p]
                 IN /\ Get(d, K("path")) = Str(pairs[i][1])
                    /\ Get(d, K("method")) = Str(pairs[i][2])
                    /\ \A k \in {x \in SeqToSet(item.keys) : Head(x) = "x-"} :
                          /\ HasKey(d, k)
                          /\ Get(d, k) = IF HasKey(op, k) THEN Get(op, k)
                                         ELSE Get(item, k)

\* getAllOperations returned three descriptors for a document with two
\* paths, one of them with a key GET and with an x- field one of its
\* operations declares too.
C8_Witness ==
    /\ last.fn = "getAllOperations" /\ last.err = ""
    /\ Len(heap[last.val.p].vals) = 3
    /\ Len(heap[Get(heap[specs[last.doc]], K("paths")).p].keys) = 2
    /\ HasKey(PathItem(heap, specs[last.doc], <<"/", "pets">>), K("GET"))
    /\ \E i \in 1..3 :
          /\ Get(heap[heap[last.val.p].vals[i].p], <<"x-", "owner">>) = S("ops")
          /\ Get(heap[heap[last.val.p].vals[i].p], <<"x-", "tier">>) = S("gold")

\* C9: the descriptor createPathOperation returns for an operation not
\* assembled before is the one it returns for it in a process that has
\* assembled nothing, whatever other operations were assembled before it.
C9_OrderIndependent ==
    (last.fn = "createPathOperation" /\ ~last.again) => SameAsFresh(last)

\* C10: a resolving call on a document no reference was resolved in before
\* returns what it returns with empty caches, and no node of another
\* document is reachable from what it returns, whatever was resolved in the
\* other document before it.
C10_NoCrossDocument ==
    (Resolving(last) /\ ~last.touchedBefore) =>
        /\ SameAsFresh(last)
        /\ \A n \in Reach(heap, last.val) : owner[n] = last.doc

\* getAllOperations on the second document right after getAllOperations on
\* the first, which left the second document's reference strings in
\* refCache and its own nodes in dataCache.
C10_Witness ==
    /\ prev.fn = "getAllOperations" /\ prev.doc = 1 /\ prev.err = ""
    /\ last.fn = "getAllOperations" /\ last.doc = 2 /\ last.err = ""
    /\ ~last.touchedBefore
    /\ \E e \in SeqToSet(prev.log) : e.ev = "ref" /\ e.ref = Str(RefP)
    /\ \E e \in SeqToSet(last.log) : e.ev = "ref" /\ e.ref = Str(RefP)
    /\ \E n \in dataCache : owner[n] = 1

====
